---- MODULE Spec2Model ----
(***************************************************************************)
(* Model of src/main.ts: the batch orchestrator makeProjects, the GraphQL  *)
(* wrappers it awaits, and findProject.                                    *)
(*                                                                         *)
(* Text is a sequence of one-character strings.  One action is one         *)
(* run-to-completion turn of the JavaScript event loop: the code between   *)
(* two awaits of one async function.                                       *)
(***************************************************************************)
EXTENDS Naturals, Sequences, FiniteSets

VARIABLES
    file,             \* text returned by Deno.readTextFileSync(inputfile)
    users,            \* users: string[][] (main.ts:18)
    mainpc,           \* position of makeProjects
    organization_id,  \* main.ts:22
    template_info,    \* main.ts:27
    idx,              \* index of the record users.forEach visits next
    status,           \* per record: position of the forEach callback
    pc,               \* per record: number of pipeline calls issued so far
    user_id,          \* per record: main.ts:35
    repository_id,    \* per record: main.ts:40
    project_id,       \* per record: main.ts:53
    calls,            \* per record: the operations its callback has called, in order
    request,          \* per record: the request awaiting its response
    assoc,            \* per record: repository the platform links its project to
    mainCalls,        \* the requests makeProjects itself has issued
    unhandled,        \* promises that rejected with no handler attached
    fTitle,           \* findProject: parameter title
    fPage,            \* findProject: nodes of the returned page
    fpc,              \* findProject: position
    fIdx,             \* findProject: index of the for..of loop
    fFetched,         \* findProject: the response carried an array of nodes
    fResult           \* findProject: value returned or error thrown

vars == <<file, users, mainpc, organization_id, template_info, idx, status, pc,
          user_id, repository_id, project_id, calls, request, assoc,
          mainCalls, unhandled, fTitle, fPage, fpc, fIdx, fFetched, fResult>>

mainVars == <<file, users, mainpc, organization_id, template_info, idx, status, pc,
              user_id, repository_id, project_id, calls, request, assoc,
              mainCalls, unhandled>>

findVars == <<fTitle, fPage, fpc, fIdx, fFetched, fResult>>

(***************************************************************************)
(* Bounds                                                                  *)
(***************************************************************************)
\* largest number of records an input file of the model parses to
MaxRecords == 2
\* largest number of nodes in a page returned to findProject
MaxPage == 2

(***************************************************************************)
(* JavaScript values                                                       *)
(***************************************************************************)
\* the value undefined (distinct from every text)
Undefined == <<"#undefined">>

\* what a template literal or "+" makes of a value: undefined becomes the
\* text "undefined"
Str(v) == IF v = Undefined THEN <<"u", "n", "d", "e", "f", "i", "n", "e", "d">> ELSE v

\* String.prototype.split(sep) for a one-character separator
RECURSIVE SplitFrom(_, _, _, _, _)
SplitFrom(s, sep, k, cur, acc) ==
    IF k > Len(s) THEN Append(acc, cur)
    ELSE IF s[k] = sep THEN SplitFrom(s, sep, k + 1, <<>>, Append(acc, cur))
    ELSE SplitFrom(s, sep, k + 1, Append(cur, s[k]), acc)

Split(s, sep) == SplitFrom(s, sep, 1, <<>>, <<>>)

\* array[j] with JavaScript's zero-based index j: undefined past the end
At(array, j) == IF j + 1 <= Len(array) THEN array[j + 1] ELSE Undefined

\* main.ts:17-18
ParseUsers(text) ==
    LET input == Split(text, "\n")
    IN  [n \in 1..Len(input) |-> Split(input[n], ",")]

(***************************************************************************)
(* Input files and configuration                                           *)
(***************************************************************************)
Labels == <<"a", "b", "c", "d">>
Logins == <<"x", "y", "z", "w">>

\* the first n lines "label,login" joined by "\n", with or without a
\* trailing "\n"
RECURSIVE Roster(_)
Roster(n) ==
    IF n = 0 THEN <<>>
    ELSE (IF n = 1 THEN <<>> ELSE Roster(n - 1) \o <<"\n">>)
         \o <<Labels[n], ",", Logins[n]>>

InputFiles ==
    {f \in {Roster(n) \o t : n \in 0..MaxRecords, t \in {<<>>, <<"\n">>}} :
        Len(Split(f, "\n")) <= MaxRecords}

\* Deno.env.get("GITHUB_ORGANIZATION") || "undefined"
organization == <<"o">>
\* Deno.env.get("GITHUB_PROJECT_TEMPLATE_NUMBER") || "undefined"
template_number == <<"1">>
\* Deno.env.get("GITHUB_ASSIGNMENT_PREFIX")
assignment_prefix == <<"p">>

(***************************************************************************)
(* Requests: the operation and the values interpolated into its query text *)
(***************************************************************************)
\* main.ts:233-239
getUserId(username) ==
    [op |-> "getUserId", args |-> <<Str(username)>>]

\* main.ts:217-223
getRepository(org, repository) ==
    [op |-> "getRepository", args |-> <<Str(org), Str(repository)>>]

\* main.ts:249-255
getOrganizationId(org) ==
    [op |-> "getOrganizationId", args |-> <<Str(org)>>]

\* main.ts:86-96
getTemplateProjectId(org, project_number) ==
    [op |-> "getTemplateProjectId", args |-> <<Str(org), Str(project_number)>>]

\* main.ts:108-116: title, ownerId, repositoryId
createProject(title, owner, repository) ==
    [op |-> "createProject", args |-> <<Str(title), Str(owner), Str(repository)>>]

\* main.ts:128-136: title, ownerId, projectId (no repositoryId)
copyProject(title, owner, template_id) ==
    [op |-> "copyProject", args |-> <<Str(title), Str(owner), Str(template_id)>>]

\* main.ts:147-158
findProjectQuery(title, org) ==
    [op |-> "findProject", args |-> <<Str(org), Str(title)>>]

\* main.ts:175-183: projectId, repositoryId
linkProjectToRepository(project, repository) ==
    [op |-> "linkProjectToRepository", args |-> <<Str(project), Str(repository)>>]

\* main.ts:194-206: projectId, userId
addCollaboratorToProject(project, user) ==
    [op |-> "addCollaboratorToProject", args |-> <<Str(project), Str(user)>>]

\* number of fields on the path each wrapper dereferences in the response,
\* e.g. response.data.user.id is 3
PathLen(op) ==
    CASE op = "getUserId" -> 3
      [] op = "getRepository" -> 3
      [] op = "getOrganizationId" -> 3
      [] op = "getTemplateProjectId" -> 4
      [] op = "createProject" -> 4
      [] op = "copyProject" -> 4
      [] op = "findProject" -> 4
      [] op = "linkProjectToRepository" -> 4
      [] op = "addCollaboratorToProject" -> 4

(***************************************************************************)
(* Responses (main.ts:265-280).  fetch or response.json() rejects, or the  *)
(* parsed body has the first depth fields of the expected path.            *)
(***************************************************************************)
Digit == <<"1", "2", "3", "4", "5", "6", "7", "8", "9">>

\* the opaque identifier the platform returns to call op of record r
\* (r = 0: makeProjects itself)
ResponseId(op, r) == <<"id", op, IF r = 0 THEN "0" ELSE Digit[r]>>

Envelopes(op, r) ==
    {[kind |-> "reject", depth |-> 0, id |-> Undefined]}
    \cup {[kind |-> "json", depth |-> d,
           id |-> IF d = PathLen(op) THEN ResponseId(op, r) ELSE Undefined] :
            d \in 0..PathLen(op)}

\* The wrapper's "await githubGraphQuery(...)" followed by
\* "return response.a.b.c": a rejected fetch throws; reading a property of
\* undefined throws a TypeError; a missing last field yields undefined.
DerefThrows(op, env) ==
    env.kind = "reject" \/ env.depth < PathLen(op) - 1

Deref(op, env) ==
    [threw |-> DerefThrows(op, env),
     value |-> IF env.kind = "json" /\ env.depth = PathLen(op) THEN env.id ELSE Undefined]

\* the envelope carries the complete expected path
WellFormed(op, env) == env.kind = "json" /\ env.depth = PathLen(op)

(***************************************************************************)
(* makeProjects (main.ts:15-77)                                            *)
(***************************************************************************)
Records == 1..Len(users)

\* no request awaits a response
NoRequest == [op |-> "none", args |-> <<>>]

\* Pipeline with the last two calls in the other order
PipelineCollaboratorFirst ==
    <<"getUserId", "getRepository", "copyProject",
      "addCollaboratorToProject", "linkProjectToRepository">>

\* Pipeline with both main.ts:52 and main.ts:53 active
PipelineCreateAndCopy ==
    <<"getUserId", "getRepository", "createProject", "copyProject",
      "linkProjectToRepository", "addCollaboratorToProject">>

\* Pipeline with main.ts:60 commented out
PipelineNoLink ==
    <<"getUserId", "getRepository", "copyProject", "addCollaboratorToProject">>

\* the awaited calls of the try block, in program order (main.ts:35-64)
Pipeline ==
    <<"getUserId", "getRepository", "copyProject",
      "linkProjectToRepository", "addCollaboratorToProject">>

\* Request with copyProject handed the organization's login and the template
\* number instead of the two identifiers resolved at main.ts:22,27
RequestUnresolvedOwner(op, user, uid, rid, pid) ==
    CASE op = "getUserId" -> getUserId(At(user, 1))
      [] op = "getRepository" ->
            getRepository(organization,
                          Str(assignment_prefix) \o <<"-">> \o Str(At(user, 1)))
      [] op = "createProject" -> createProject(At(user, 0), organization_id, rid)
      [] op = "copyProject" ->
            copyProject(At(user, 0), organization, template_number)
      [] op = "findProject" -> findProjectQuery(At(user, 0), organization)
      [] op = "linkProjectToRepository" -> linkProjectToRepository(pid, rid)
      [] op = "addCollaboratorToProject" -> addCollaboratorToProject(pid, uid)

\* Request with project_id not a local of the callback: link and
\* add-collaborator read the project identifier the first record holds
RequestSharedProject(op, user, uid, rid, pid) ==
    CASE op = "getUserId" -> getUserId(At(user, 1))
      [] op = "getRepository" ->
            getRepository(organization,
                          Str(assignment_prefix) \o <<"-">> \o Str(At(user, 1)))
      [] op = "createProject" -> createProject(At(user, 0), organization_id, rid)
      [] op = "copyProject" ->
            copyProject(At(user, 0), organization_id, template_info[1])
      [] op = "findProject" -> findProjectQuery(At(user, 0), organization)
      [] op = "linkProjectToRepository" -> linkProjectToRepository(project_id[1], rid)
      [] op = "addCollaboratorToProject" -> addCollaboratorToProject(project_id[1], uid)

\* the request the callback of record user issues for op, given its locals
Request(op, user, uid, rid, pid) ==
    CASE op = "getUserId" -> getUserId(At(user, 1))
      [] op = "getRepository" ->
            getRepository(organization,
                          Str(assignment_prefix) \o <<"-">> \o Str(At(user, 1)))
      [] op = "createProject" -> createProject(At(user, 0), organization_id, rid)
      [] op = "copyProject" ->
            copyProject(At(user, 0), organization_id, template_info[1])
      [] op = "findProject" -> findProjectQuery(At(user, 0), organization)
      [] op = "linkProjectToRepository" -> linkProjectToRepository(pid, rid)
      [] op = "addCollaboratorToProject" -> addCollaboratorToProject(pid, uid)

\* HandlersMayRun with makeProjects awaiting the promises of the callbacks
\* (as "await Promise.all(users.map(...))" would): responses are handled
\* while makeProjects is still suspended at its await
HandlersMayRunWhileAwaiting == mainpc # "loop"

\* No handler of a response runs while makeProjects is inside forEach or its
\* continuation after "await users.forEach(...)" is still queued: the loop
\* is synchronous and that continuation is a microtask queued before any
\* callback's.
HandlersMayRun == mainpc \notin {"loop", "tick"}

Init ==
    /\ file \in InputFiles
    /\ users = <<>>
    /\ mainpc = "entry"
    /\ organization_id = Undefined
    /\ template_info = <<Undefined, Undefined>>
    /\ idx = 1
    /\ status = <<>>
    /\ pc = <<>>
    /\ user_id = <<>>
    /\ repository_id = <<>>
    /\ project_id = <<>>
    /\ calls = <<>>
    /\ request = <<>>
    /\ assoc = <<>>
    /\ mainCalls = <<>>
    /\ unhandled = {}
    /\ fTitle = <<>>
    /\ fPage = <<>>
    /\ fpc = "idle"
    /\ fIdx = 1
    /\ fFetched = FALSE
    /\ fResult = Undefined

\* main.ts:17-22, up to the first await
Enter ==
    /\ mainpc = "entry"
    /\ users' = ParseUsers(file)
    /\ status' = [r \in 1..Len(users') |-> "notstarted"]
    /\ pc' = [r \in 1..Len(users') |-> 0]
    /\ user_id' = [r \in 1..Len(users') |-> Undefined]
    /\ repository_id' = [r \in 1..Len(users') |-> Undefined]
    /\ project_id' = [r \in 1..Len(users') |-> Undefined]
    /\ calls' = [r \in 1..Len(users') |-> <<>>]
    /\ request' = [r \in 1..Len(users') |-> NoRequest]
    /\ assoc' = [r \in 1..Len(users') |-> Undefined]
    /\ mainCalls' = <<getOrganizationId(organization)>>
    /\ mainpc' = "org"
    /\ UNCHANGED <<file, organization_id, template_info, idx, unhandled>>
    /\ UNCHANGED findVars

\* main.ts:22 throws: makeProjects rejects, and main.ts:286 attaches no handler
OrgReject ==
    /\ mainpc = "org"
    /\ {env \in Envelopes("getOrganizationId", 0) : DerefThrows("getOrganizationId", env)} # {}
    /\ mainpc' = "rejected"
    /\ unhandled' = unhandled \cup {0}
    /\ UNCHANGED <<file, users, organization_id, template_info, idx, status, pc,
                   user_id, repository_id, project_id, calls, request, assoc, mainCalls>>
    /\ UNCHANGED findVars

\* main.ts:22-27
OrgResolve ==
    /\ mainpc = "org"
    /\ \E env \in Envelopes("getOrganizationId", 0) :
        /\ ~DerefThrows("getOrganizationId", env)
        /\ organization_id' = Deref("getOrganizationId", env).value
    /\ mainCalls' = Append(mainCalls, getTemplateProjectId(organization, template_number))
    /\ mainpc' = "tmpl"
    /\ UNCHANGED <<file, users, template_info, idx, status, pc, user_id,
                   repository_id, project_id, calls, request, assoc,
                   unhandled>>
    /\ UNCHANGED findVars

\* main.ts:27 throws
TemplateReject ==
    /\ mainpc = "tmpl"
    /\ {env \in Envelopes("getTemplateProjectId", 0) : DerefThrows("getTemplateProjectId", env)} # {}
    /\ mainpc' = "rejected"
    /\ unhandled' = unhandled \cup {0}
    /\ UNCHANGED <<file, users, organization_id, template_info, idx, status, pc,
                   user_id, repository_id, project_id, calls, request, assoc, mainCalls>>
    /\ UNCHANGED findVars

\* main.ts:27-31: [projectV2.id, projectV2.title], then forEach begins
TemplateResolve ==
    /\ mainpc = "tmpl"
    /\ \E env \in Envelopes("getTemplateProjectId", 0) :
        /\ ~DerefThrows("getTemplateProjectId", env)
        /\ template_info' =
              IF WellFormed("getTemplateProjectId", env)
              THEN <<env.id, <<"t">>>>
              ELSE <<Undefined, Undefined>>
    /\ mainpc' = "loop"
    /\ idx' = 1
    /\ UNCHANGED <<file, users, organization_id, status, pc, user_id,
                   repository_id, project_id, calls, request, assoc,
                   mainCalls, unhandled>>
    /\ UNCHANGED findVars

\* StartRecord as "for (const user of users) { await ... }" with no try
\* block: the next record starts once the previous one has completed
StartRecordSequentialNoCatch ==
    /\ mainpc \in {"loop", "awaitRecord"}
    /\ idx <= Len(users)
    /\ IF idx = 1 THEN TRUE ELSE status[idx - 1] = "done"
    /\ mainpc' = "awaitRecord"
    /\ status' = [status EXCEPT ![idx] = "awaiting"]
    /\ pc' = [pc EXCEPT ![idx] = 1]
    /\ calls' = [calls EXCEPT ![idx] = <<"getUserId">>]
    /\ request' = [request EXCEPT ![idx] = getUserId(At(users[idx], 1))]
    /\ idx' = idx + 1
    /\ UNCHANGED <<file, users, organization_id, template_info, user_id,
                   repository_id, project_id, assoc, mainCalls, unhandled>>
    /\ UNCHANGED <<fTitle, fPage, fpc, fIdx, fFetched, fResult>>

\* StartRecord as "for (const user of users) { try { await ... } catch ... }":
\* the next record starts once the previous one has settled
StartRecordSequential ==
    /\ mainpc \in {"loop", "awaitRecord"}
    /\ idx <= Len(users)
    /\ IF idx = 1 THEN TRUE ELSE status[idx - 1] \in {"done", "failed"}
    /\ mainpc' = "awaitRecord"
    /\ status' = [status EXCEPT ![idx] = "awaiting"]
    /\ pc' = [pc EXCEPT ![idx] = 1]
    /\ calls' = [calls EXCEPT ![idx] = <<"getUserId">>]
    /\ request' = [request EXCEPT ![idx] = getUserId(At(users[idx], 1))]
    /\ idx' = idx + 1
    /\ UNCHANGED <<file, users, organization_id, template_info, user_id,
                   repository_id, project_id, assoc, mainCalls, unhandled>>
    /\ UNCHANGED <<fTitle, fPage, fpc, fIdx, fFetched, fResult>>

\* StartRecord with the loop running although makeProjects has rejected
StartRecordAfterReject ==
    /\ mainpc \in {"loop", "rejected"}
    /\ idx <= Len(users)
    /\ status' = [status EXCEPT ![idx] = "awaiting"]
    /\ pc' = [pc EXCEPT ![idx] = 1]
    /\ calls' = [calls EXCEPT ![idx] = <<"getUserId">>]
    /\ request' = [request EXCEPT ![idx] = getUserId(At(users[idx], 1))]
    /\ idx' = idx + 1
    /\ UNCHANGED <<file, users, mainpc, organization_id, template_info, user_id,
                   repository_id, project_id, assoc, mainCalls, unhandled>>
    /\ UNCHANGED <<fTitle, fPage, fpc, fIdx, fFetched, fResult>>

\* StartRecord with the roster walked from its last record to its first
StartRecordReversed ==
    /\ mainpc = "loop"
    /\ idx <= Len(users)
    /\ LET j == Len(users) + 1 - idx
       IN  /\ status' = [status EXCEPT ![j] = "awaiting"]
           /\ pc' = [pc EXCEPT ![j] = 1]
           /\ calls' = [calls EXCEPT ![j] = <<Pipeline[1]>>]
           /\ request' = [request EXCEPT ![j] =
                             Request(Pipeline[1], users[j], user_id[j],
                                     repository_id[j], project_id[j])]
    /\ idx' = idx + 1
    /\ UNCHANGED <<file, users, mainpc, organization_id, template_info, user_id,
                   repository_id, project_id, assoc, mainCalls, unhandled>>
    /\ UNCHANGED <<fTitle, fPage, fpc, fIdx, fFetched, fResult>>

\* main.ts:31-35: forEach calls the callback of the next record, which runs
\* up to its first await (the fetch of getUserId) and returns a promise that
\* forEach drops
StartRecord ==
    /\ mainpc = "loop"
    /\ idx <= Len(users)
    /\ status' = [status EXCEPT ![idx] = "awaiting"]
    /\ pc' = [pc EXCEPT ![idx] = 1]
    /\ calls' = [calls EXCEPT ![idx] = <<Pipeline[1]>>]
    /\ request' = [request EXCEPT ![idx] =
                      Request(Pipeline[1], users[idx], user_id[idx],
                              repository_id[idx], project_id[idx])]
    /\ idx' = idx + 1
    /\ UNCHANGED <<file, users, mainpc, organization_id, template_info, user_id,
                   repository_id, project_id, assoc, mainCalls, unhandled>>
    /\ UNCHANGED findVars

\* main.ts:31,75: forEach returns undefined; "await undefined" suspends
ForEachReturns ==
    /\ mainpc = "loop"
    /\ idx > Len(users)
    /\ mainpc' = "tick"
    /\ UNCHANGED <<file, users, organization_id, template_info, idx, status, pc,
                   user_id, repository_id, project_id, calls, request, assoc, mainCalls, unhandled>>
    /\ UNCHANGED findVars

\* MainReturn with a cancellation of the requests still in flight when
\* makeProjects returns: their records end as failures without a response
MainReturnCancels ==
    /\ mainpc = "tick"
    /\ mainpc' = "returned"
    /\ status' = [r \in Records |-> IF status[r] = "awaiting" THEN "failed" ELSE status[r]]
    /\ request' = [r \in Records |-> NoRequest]
    /\ UNCHANGED <<file, users, organization_id, template_info, idx, pc,
                   user_id, repository_id, project_id, calls, assoc, mainCalls, unhandled>>
    /\ UNCHANGED <<fTitle, fPage, fpc, fIdx, fFetched, fResult>>

\* main.ts:76: the promise of makeProjects resolves
MainReturn ==
    /\ mainpc = "tick"
    /\ mainpc' = "returned"
    /\ UNCHANGED <<file, users, organization_id, template_info, idx, status, pc,
                   user_id, repository_id, project_id, calls, request, assoc, mainCalls, unhandled>>
    /\ UNCHANGED findVars

\* the platform links a project to the repository named in a mutation that
\* carries a repositoryId and completes (main.ts:45-47, 57)
LinksRepository(op) == op \in {"createProject", "linkProjectToRepository"}

RepositoryArg(req) ==
    IF req.op = "createProject" THEN req.args[3] ELSE req.args[2]

\* RecordFail without the try block of main.ts:33,66: the error leaves the
\* callback, whose promise forEach dropped
RecordFailUncaught(r) ==
    /\ HandlersMayRun
    /\ status[r] = "awaiting"
    /\ {env \in Envelopes(Pipeline[pc[r]], r) : DerefThrows(Pipeline[pc[r]], env)} # {}
    /\ status' = [status EXCEPT ![r] = "failed"]
    /\ request' = [request EXCEPT ![r] = NoRequest]
    /\ user_id' = [user_id EXCEPT ![r] = Undefined]
    /\ repository_id' = [repository_id EXCEPT ![r] = Undefined]
    /\ project_id' = [project_id EXCEPT ![r] = Undefined]
    /\ unhandled' = unhandled \cup {r}
    /\ UNCHANGED <<file, users, mainpc, organization_id, template_info, idx, pc,
                   calls, assoc, mainCalls>>
    /\ UNCHANGED <<fTitle, fPage, fpc, fIdx, fFetched, fResult>>

\* RecordFail with a rollback in the catch block: when the project was
\* already copied, the catch block issues a call that deletes it
RecordFailRollback(r) ==
    /\ HandlersMayRun
    /\ status[r] = "awaiting"
    /\ {env \in Envelopes(Pipeline[pc[r]], r) : DerefThrows(Pipeline[pc[r]], env)} # {}
    /\ status' = [status EXCEPT ![r] = "failed"]
    /\ request' = [request EXCEPT ![r] = NoRequest]
    /\ user_id' = [user_id EXCEPT ![r] = Undefined]
    /\ repository_id' = [repository_id EXCEPT ![r] = Undefined]
    /\ project_id' = [project_id EXCEPT ![r] = Undefined]
    /\ calls' = [calls EXCEPT ![r] =
                    IF pc[r] >= 4 THEN Append(@, "deleteProject") ELSE @]
    /\ UNCHANGED <<file, users, mainpc, organization_id, template_info, idx, pc,
                   assoc, mainCalls, unhandled>>
    /\ UNCHANGED <<fTitle, fPage, fpc, fIdx, fFetched, fResult>>

\* RecordFail with the catch block starting the record's pipeline again from
\* its first call
RecordFailRestarts(r) ==
    /\ HandlersMayRun
    /\ status[r] = "awaiting"
    /\ {env \in Envelopes(Pipeline[pc[r]], r) : DerefThrows(Pipeline[pc[r]], env)} # {}
    /\ pc' = [pc EXCEPT ![r] = 1]
    /\ calls' = [calls EXCEPT ![r] = <<Pipeline[1]>>]
    /\ request' = [request EXCEPT ![r] =
                      Request(Pipeline[1], users[r], Undefined, Undefined, Undefined)]
    /\ user_id' = [user_id EXCEPT ![r] = Undefined]
    /\ repository_id' = [repository_id EXCEPT ![r] = Undefined]
    /\ project_id' = [project_id EXCEPT ![r] = Undefined]
    /\ UNCHANGED <<file, users, mainpc, organization_id, template_info, idx, status,
                   assoc, mainCalls, unhandled>>
    /\ UNCHANGED <<fTitle, fPage, fpc, fIdx, fFetched, fResult>>

\* main.ts:66-74: an await of the try block throws; the catch block logs the
\* label and the error, and the callback returns (its locals are gone)
RecordFail(r) ==
    /\ HandlersMayRun
    /\ status[r] = "awaiting"
    /\ {env \in Envelopes(Pipeline[pc[r]], r) : DerefThrows(Pipeline[pc[r]], env)} # {}
    /\ status' = [status EXCEPT ![r] = "failed"]
    /\ request' = [request EXCEPT ![r] = NoRequest]
    /\ user_id' = [user_id EXCEPT ![r] = Undefined]
    /\ repository_id' = [repository_id EXCEPT ![r] = Undefined]
    /\ project_id' = [project_id EXCEPT ![r] = Undefined]
    /\ UNCHANGED <<file, users, mainpc, organization_id, template_info, idx, pc,
                   calls, assoc, mainCalls, unhandled>>
    /\ UNCHANGED findVars

\* main.ts:35-65: an await of the try block returns; the callback stores the
\* value and runs to its next await, or to the end of the try block, where
\* it returns (its locals are gone)
RecordAdvance(r) ==
    /\ HandlersMayRun
    /\ status[r] = "awaiting"
    /\ \E env \in Envelopes(Pipeline[pc[r]], r) :
        LET op  == Pipeline[pc[r]]
            v   == Deref(op, env).value
            uid == IF op = "getUserId" THEN v ELSE user_id[r]
            rid == IF op = "getRepository" THEN v ELSE repository_id[r]
            pid == IF op \in {"createProject", "copyProject", "findProject"}
                   THEN v ELSE project_id[r]
            last == pc[r] = Len(Pipeline)
        IN  /\ ~DerefThrows(op, env)
            /\ assoc' = IF LinksRepository(op) /\ WellFormed(op, env)
                        THEN [assoc EXCEPT ![r] = RepositoryArg(request[r])]
                        ELSE assoc
            /\ user_id' = [user_id EXCEPT ![r] = IF last THEN Undefined ELSE uid]
            /\ repository_id' =
                  [repository_id EXCEPT ![r] = IF last THEN Undefined ELSE rid]
            /\ project_id' = [project_id EXCEPT ![r] = IF last THEN Undefined ELSE pid]
            /\ IF ~last
               THEN /\ pc' = [pc EXCEPT ![r] = pc[r] + 1]
                    /\ calls' = [calls EXCEPT ![r] = Append(@, Pipeline[pc[r] + 1])]
                    /\ request' = [request EXCEPT ![r] =
                            Request(Pipeline[pc[r] + 1], users[r], uid, rid, pid)]
                    /\ UNCHANGED status
               ELSE /\ status' = [status EXCEPT ![r] = "done"]
                    /\ request' = [request EXCEPT ![r] = NoRequest]
                    /\ UNCHANGED <<pc, calls>>
    /\ UNCHANGED <<file, users, mainpc, organization_id, template_info, idx,
                   mainCalls, unhandled>>
    /\ UNCHANGED findVars

Next ==
    \/ Enter
    \/ OrgReject
    \/ OrgResolve
    \/ TemplateReject
    \/ TemplateResolve
    \/ StartRecord
    \/ ForEachReturns
    \/ MainReturn
    \/ \E r \in Records : RecordFail(r)
    \/ \E r \in Records : RecordAdvance(r)

Spec == Init /\ [][Next]_vars

\* the response to the call record r has in flight arrives and is handled
RecordResponse(r) == r \in Records /\ (RecordFail(r) \/ RecordAdvance(r))

\* The run goes on: the synchronous code of makeProjects runs to its next
\* await, and every call that was issued returns (with a value or an
\* error) and its handler runs.
Fairness ==
    /\ WF_vars(Enter \/ StartRecord \/ ForEachReturns \/ MainReturn)
    /\ WF_vars(OrgReject \/ OrgResolve)
    /\ WF_vars(TemplateReject \/ TemplateResolve)
    /\ \A r \in 1..MaxRecords : WF_vars(RecordResponse(r))

SpecFair == Init /\ [][Next]_vars /\ Fairness

(***************************************************************************)
(* findProject (main.ts:147-166)                                           *)
(***************************************************************************)
Bob == <<"b", "o", "b">>
Bob2 == <<"b", "o", "b", "2">>
Al == <<"a", "l">>

\* titles searched for, and titles and identifiers of the platform's projects
SearchTitles == {Bob, Al}
ProjectTitles == {Bob, Bob2, Al}
ProjectIds == {<<"id", "P1">>, <<"id", "P2">>}

Nodes == [id : ProjectIds, title : ProjectTitles]

\* the arrays of at most n nodes
RECURSIVE PagesUpTo(_)
PagesUpTo(n) ==
    IF n = 0 THEN {<<>>}
    ELSE PagesUpTo(n - 1)
         \cup {Append(page, node) : page \in {q \in PagesUpTo(n - 1) : Len(q) = n - 1},
                                    node \in Nodes}

Pages == PagesUpTo(MaxPage)

\* TitleMatches as title.startsWith-style comparison: the wanted title is a
\* prefix of the project's title
TitleMatchesPrefix(projectTitle, title) ==
    /\ Len(projectTitle) >= Len(title)
    /\ SubSeq(projectTitle, 1, Len(title)) = title

\* main.ts:161: project.title === title
TitleMatches(projectTitle, title) == projectTitle = title

NotFoundError == <<"Error", "not found">>
TypeError == <<"TypeError">>
FetchError == <<"fetch rejected">>

InitFind ==
    /\ file = <<>>
    /\ users = <<>>
    /\ mainpc = "entry"
    /\ organization_id = Undefined
    /\ template_info = <<Undefined, Undefined>>
    /\ idx = 1
    /\ status = <<>>
    /\ pc = <<>>
    /\ user_id = <<>>
    /\ repository_id = <<>>
    /\ project_id = <<>>
    /\ calls = <<>>
    /\ request = <<>>
    /\ assoc = <<>>
    /\ mainCalls = <<>>
    /\ unhandled = {}
    /\ fTitle \in SearchTitles
    /\ fPage = <<>>
    /\ fpc = "idle"
    /\ fIdx = 1
    /\ fFetched = FALSE
    /\ fResult = Undefined

\* main.ts:148-158, up to the await of githubGraphQuery
FindCall ==
    /\ fpc = "idle"
    /\ fpc' = "fetching"
    /\ UNCHANGED <<fTitle, fPage, fIdx, fFetched, fResult>>
    /\ UNCHANGED mainVars

\* main.ts:158: fetch or response.json() rejects
FindFetchRejects ==
    /\ fpc = "fetching"
    /\ fpc' = "thrown"
    /\ fResult' = FetchError
    /\ UNCHANGED <<fTitle, fPage, fIdx, fFetched>>
    /\ UNCHANGED mainVars

\* main.ts:159-160: a field of response.data.organization.projectsV2.nodes
\* is missing: reading a property of undefined, or iterating undefined, throws
FindMalformed ==
    /\ fpc = "fetching"
    /\ {env \in Envelopes("findProject", 0) :
            env.kind = "json" /\ env.depth < PathLen("findProject")} # {}
    /\ fpc' = "thrown"
    /\ fResult' = TypeError
    /\ UNCHANGED <<fTitle, fPage, fIdx, fFetched>>
    /\ UNCHANGED mainVars

\* main.ts:159: the response carries a page of nodes
FindPage ==
    /\ fpc = "fetching"
    /\ fPage' \in Pages
    /\ fFetched' = TRUE
    /\ fIdx' = 1
    /\ fpc' = "scan"
    /\ UNCHANGED <<fTitle, fResult>>
    /\ UNCHANGED mainVars

\* main.ts:160-164: one iteration of the for..of loop
FindScan ==
    /\ fpc = "scan"
    /\ fIdx <= Len(fPage)
    /\ IF TitleMatches(fPage[fIdx].title, fTitle)
       THEN /\ fpc' = "returned"
            /\ fResult' = fPage[fIdx].id
            /\ UNCHANGED fIdx
       ELSE /\ fIdx' = fIdx + 1
            /\ UNCHANGED <<fpc, fResult>>
    /\ UNCHANGED <<fTitle, fPage, fFetched>>
    /\ UNCHANGED mainVars

\* main.ts:165: the loop ended without returning
FindNotFound ==
    /\ fpc = "scan"
    /\ fIdx > Len(fPage)
    /\ fpc' = "thrown"
    /\ fResult' = NotFoundError
    /\ UNCHANGED <<fTitle, fPage, fIdx, fFetched>>
    /\ UNCHANGED mainVars

NextFind ==
    \/ FindCall
    \/ FindFetchRejects
    \/ FindMalformed
    \/ FindPage
    \/ FindScan
    \/ FindNotFound

SpecFind == InitFind /\ [][NextFind]_vars

(***************************************************************************)
(* Properties                                                              *)
(***************************************************************************)
\* position of the first occurrence of op in a sequence of operations, 0 if none
RECURSIVE IndexFrom(_, _, _)
IndexFrom(seq, op, k) ==
    IF k > Len(seq) THEN 0 ELSE IF seq[k] = op THEN k ELSE IndexFrom(seq, op, k + 1)

IndexOf(seq, op) == IndexFrom(seq, op, 1)

Occurrences(seq, ops) == Cardinality({k \in 1..Len(seq) : seq[k] \in ops})

AcquisitionOps == {"createProject", "copyProject", "findProject"}

\* C1: once a record has failed, at whatever step, every later record of
\* the roster has had its pipeline started: its first call, getUserId, has
\* been issued.
C1_LaterRecordsAttempted ==
    \A n \in Records : \A m \in Records :
        (n < m /\ status[n] = "failed") =>
            /\ status[m] # "notstarted"
            /\ Len(calls[m]) >= 1
            /\ calls[m][1] = "getUserId"

\* the first record failed and the second one ran its whole pipeline
C1_Witness ==
    /\ Len(users) >= 2
    /\ status[1] = "failed"
    /\ status[2] = "done"

\* the order C2 states
ExpectedOrder ==
    <<"getUserId", "getRepository", "copyProject",
      "linkProjectToRepository", "addCollaboratorToProject">>

\* C2: the calls a record has issued are always an initial part of
\* user-resolve, repository-resolve, copy, link, add-collaborator, each once;
\* the one request awaiting its response is the last of them (so a step is
\* issued only after the previous one returned); user-resolve carries the
\* record's username and repository-resolve the name prefix-username; a
\* record that completed has issued all five.
C2_PipelineOrder ==
    \A r \in Records :
        /\ Len(calls[r]) <= Len(ExpectedOrder)
        /\ calls[r] = SubSeq(ExpectedOrder, 1, Len(calls[r]))
        /\ status[r] = "awaiting" =>
              /\ calls[r] # <<>>
              /\ request[r].op = calls[r][Len(calls[r])]
        /\ status[r] # "awaiting" => request[r] = NoRequest
        /\ status[r] = "done" => calls[r] = ExpectedOrder
        /\ (Len(users[r]) = 2 /\ request[r].op = "getUserId") =>
              request[r].args = <<users[r][2]>>
        /\ (Len(users[r]) = 2 /\ request[r].op = "getRepository") =>
              request[r].args = <<organization, <<"p", "-">> \o users[r][2]>>

\* a two-field record completed its pipeline
C2_Witness ==
    \E r \in Records : Len(users[r]) = 2 /\ status[r] = "done"

\* C3: a record issues at most one acquisition call; once its repository is
\* resolved and the callback has gone on, it has issued exactly one; and all
\* the acquisition calls of a run are the same operation.
C3_OneAcquisition ==
    /\ \A r \in Records :
        /\ Occurrences(calls[r], AcquisitionOps) <= 1
        /\ Len(calls[r]) >= 3 =>
              /\ calls[r][1] = "getUserId"
              /\ calls[r][2] = "getRepository"
              /\ calls[r][3] \in AcquisitionOps
              /\ Occurrences(calls[r], AcquisitionOps) = 1
    /\ Cardinality(UNION {{calls[r][k] : k \in 1..Len(calls[r])} : r \in Records}
                        \cap AcquisitionOps) <= 1

\* two two-field records have both gone past their acquisition call
C3_Witness ==
    /\ Len(users) >= 2
    /\ \A r \in 1..2 : Len(users[r]) = 2 /\ Len(calls[r]) >= 4

\* C4: findProject returns only the identifier of a node of the page whose
\* title equals the wanted title, and no node before it has that title;
\* when the page holds no node with that title it throws the not-found
\* error and returns nothing.
C4_FindExact ==
    /\ fpc = "returned" =>
          /\ fResult # Undefined
          /\ \E k \in 1..Len(fPage) :
                /\ fPage[k].title = fTitle
                /\ fPage[k].id = fResult
    /\ (fFetched /\ fpc # "scan" /\ \A k \in 1..Len(fPage) : fPage[k].title # fTitle) =>
          /\ fpc = "thrown"
          /\ fResult = NotFoundError

\* the search for "bob" in a page holding "bob2" ended with the not-found error
C4_Witness ==
    /\ fTitle = Bob
    /\ fFetched
    /\ \E k \in 1..Len(fPage) : fPage[k].title = Bob2
    /\ fpc = "thrown"
    /\ fResult = NotFoundError

\* C5: the copy request carries a title, an owner and the template, and no
\* repository; the platform associates a record's project with a repository
\* only once that record's link call has returned; and the link call is the
\* call issued right after copy, before add-collaborator.
C5_CopyThenLink ==
    \A r \in Records :
        LET copy   == IndexOf(calls[r], "copyProject")
            link   == IndexOf(calls[r], "linkProjectToRepository")
            collab == IndexOf(calls[r], "addCollaboratorToProject")
        IN  /\ request[r].op = "copyProject" =>
                  request[r].args = <<Str(At(users[r], 0)), Str(organization_id),
                                      Str(template_info[1])>>
            /\ assoc[r] # Undefined =>
                  /\ link # 0
                  /\ link < Len(calls[r]) \/ status[r] = "done"
            /\ (copy # 0 /\ copy < Len(calls[r])) => link = copy + 1
            /\ collab # 0 => (link # 0 /\ link < collab)

\* a copied project is still unlinked while its record's link call is in flight
C5_Witness ==
    \E r \in Records :
        /\ status[r] = "awaiting"
        /\ request[r].op = "linkProjectToRepository"
        /\ project_id[r] = ResponseId("copyProject", r)
        /\ assoc[r] = Undefined

\* every value the callback of record r has obtained from the calls that
\* returned to it is defined
ValuesDefined(r) ==
    status[r] = "awaiting" =>
        /\ pc[r] >= 2 => user_id[r] # Undefined
        /\ pc[r] >= 3 => repository_id[r] # Undefined
        /\ pc[r] >= 4 => project_id[r] # Undefined

\* C6: no record goes on to a later call with a missing value: a record
\* awaiting a call holds a defined value from each of its earlier calls (an
\* envelope lacking a field of the dereferenced path ended the record as a
\* caught failure instead), and makeProjects has no unhandled rejection
\* once the loop has begun.
C6_MalformedEnvelopeFails ==
    /\ \A r \in Records : ValuesDefined(r)
    /\ mainpc \in {"loop", "tick", "returned"} => unhandled = {}

InFlight == {r \in Records : status[r] = "awaiting"}

\* C7: once makeProjects has rejected (organization or template resolution
\* threw), the rejection is unhandled and no record has issued or will have
\* issued any call; a record's call is only ever issued after both shared
\* calls were issued and makeProjects went on to the loop.
C7_SharedFailureAborts ==
    /\ mainpc = "rejected" =>
          /\ 0 \in unhandled
          /\ \A r \in Records :
                /\ status[r] = "notstarted"
                /\ calls[r] = <<>>
                /\ request[r] = NoRequest
    /\ (\E r \in Records : calls[r] # <<>>) =>
          /\ mainpc \in {"loop", "tick", "returned"}
          /\ Len(mainCalls) = 2

\* template resolution threw with a roster of two records waiting
C7_Witness ==
    /\ mainpc = "rejected"
    /\ Len(mainCalls) = 2
    /\ Len(users) >= 2

\* C8: no record moves past its first call before every record of the
\* roster has been started; when forEach returns every record has a call in
\* flight, as many as the roster holds; and whenever handlers may run, the
\* response of each record with a call in flight can be handled next,
\* whatever the other records are doing.
C8_NoWaiting ==
    /\ \A r \in Records :
          (r < Len(users) /\ status[r + 1] = "notstarted") =>
              \/ status[r] = "notstarted"
              \/ status[r] = "awaiting" /\ pc[r] = 1
    /\ mainpc = "tick" => InFlight = Records
    /\ Cardinality(InFlight) <= Len(users)
    /\ \A r \in Records :
          (HandlersMayRun /\ status[r] = "awaiting") =>
              ENABLED (RecordFail(r) \/ RecordAdvance(r))

\* the second record completed while the first still awaits its first response
C8_Witness ==
    /\ Len(users) >= 2
    /\ status[2] = "done"
    /\ status[1] = "awaiting"
    /\ pc[1] = 1

\* the record a trailing "\n" of the file adds
BlankRecord == <<<<>>>>

\* C9: when the file ends with a line break, the empty record it yields
\* issues no acquisition, link or add-collaborator call and no project is
\* linked for it (stated for the states in which every value that record
\* holds is defined, so that every response it received was complete).
C9_BlankRecordIgnored ==
    (Len(users) >= 1 /\ Len(file) >= 1 /\ file[Len(file)] = "\n"
            /\ ValuesDefined(Len(users))) =>
        LET r == Len(users)
        IN  /\ users[r] = BlankRecord
            /\ Occurrences(calls[r], AcquisitionOps
                    \cup {"linkProjectToRepository", "addCollaboratorToProject"}) = 0
            /\ assoc[r] = Undefined

\* C10: once the loop has begun, makeProjects never rejects and no promise
\* rejects unhandled, whatever the records do; when every record has
\* settled, done or failed alike, makeProjects has returned normally.
C10_CompletesNormally ==
    /\ (mainpc \in {"loop", "tick", "returned"} \/ \E r \in Records : status[r] # "notstarted") =>
          /\ mainpc # "rejected"
          /\ unhandled = {}
    /\ (Len(users) >= 1 /\ \A r \in Records : status[r] \in {"done", "failed"}) =>
          /\ mainpc = "returned"
          /\ unhandled = {}

\* every record of a roster of two failed and makeProjects returned normally
C10_Witness ==
    /\ Len(users) >= 2
    /\ \A r \in Records : status[r] = "failed"
    /\ mainpc = "returned"
    /\ unhandled = {}

\* C11: a record whose step failed stays at the partial state it reached:
\* the calls it has issued are exactly the steps up to the one that failed,
\* each once (the failed step is not issued again, no later step and no
\* other call follows it), nothing of it is in flight, and a record whose
\* link call failed has copied its project and has issued no
\* add-collaborator call.
C11_AbandonedAtFailure ==
    \A r \in Records :
        status[r] = "failed" =>
            /\ pc[r] \in 1..Len(ExpectedOrder)
            /\ calls[r] = SubSeq(ExpectedOrder, 1, pc[r])
            /\ request[r] = NoRequest
            /\ ~ENABLED (RecordFail(r) \/ RecordAdvance(r))
            /\ pc[r] = 4 =>
                  /\ Occurrences(calls[r], {"copyProject"}) = 1
                  /\ Occurrences(calls[r], {"addCollaboratorToProject"}) = 0

\* the link call of the first record failed after its project was copied,
\* and the run went on until the other record completed
C11_Witness ==
    /\ Len(users) >= 2
    /\ status[1] = "failed"
    /\ pc[1] = 4
    /\ calls[1][Len(calls[1])] = "linkProjectToRepository"
    /\ status[2] = "done"

\* the values a call of op for record r (0: makeProjects itself) can return
ReturnedValues ==
    [op \in {"getOrganizationId", "getTemplateProjectId", "getUserId",
             "getRepository", "copyProject"} |->
        [r \in 0..MaxRecords |->
            {Deref(op, env).value :
                env \in {e \in Envelopes(op, r) : ~DerefThrows(op, e)}}]]

Returned(op, r) == ReturnedValues[op][r]

\* C12: organization resolution and template resolution are each issued at
\* most once, in that order, and nothing else is issued by makeProjects
\* itself; when any record has issued a call, both were issued and both have
\* returned; and every copy request carries, as owner and as template, the
\* values those two calls returned, which are the ones makeProjects holds
\* (so they are the same for every record).
C12_SharedResolvedOnce ==
    /\ Len(mainCalls) <= 2
    /\ mainCalls = SubSeq(<<getOrganizationId(organization),
                            getTemplateProjectId(organization, template_number)>>,
                          1, Len(mainCalls))
    /\ (\E r \in Records : calls[r] # <<>>) =>
          /\ Len(mainCalls) = 2
          /\ mainpc \in {"loop", "tick", "returned"}
          /\ organization_id \in Returned("getOrganizationId", 0)
          /\ template_info[1] \in Returned("getTemplateProjectId", 0)
    /\ \A r \in Records :
          request[r].op = "copyProject" =>
              /\ request[r].args[2] = Str(organization_id)
              /\ request[r].args[3] = Str(template_info[1])
              /\ request[r].args[2] \in {Str(v) : v \in Returned("getOrganizationId", 0)}
              /\ request[r].args[3] \in {Str(v) : v \in Returned("getTemplateProjectId", 0)}

\* the copy calls of two records are in flight with the organization and
\* template identifiers the two shared calls returned
C12_Witness ==
    /\ Len(users) >= 2
    /\ organization_id = ResponseId("getOrganizationId", 0)
    /\ template_info[1] = ResponseId("getTemplateProjectId", 0)
    /\ \A r \in 1..2 :
          /\ request[r].op = "copyProject"
          /\ request[r].args[2] = Str(ResponseId("getOrganizationId", 0))
          /\ request[r].args[3] = Str(ResponseId("getTemplateProjectId", 0))

\* C13: a step in which a record with a call in flight stops awaiting,
\* moves to another step, issues a call or changes its request is the
\* handling of that call's response (the catch block when the record ends
\* failed, the continuation of the try block otherwise): nothing but the
\* response ends the wait, so while the call does not return the record
\* stays where it is, neither completes nor fails, and issues no further
\* call.
C13_BlockedUntilResponse ==
    [][\A r \in Records :
          (/\ status[r] = "awaiting"
           /\ \/ status'[r] # "awaiting"
              \/ pc'[r] # pc[r]
              \/ calls'[r] # calls[r]
              \/ request'[r] # request[r]) =>
              IF status'[r] = "failed" THEN RecordFail(r) ELSE RecordAdvance(r)]_vars

\* makeProjects has returned and the other record has completed, and the
\* first record still awaits the response to its repository-resolve call
C13_Witness ==
    /\ Len(users) >= 2
    /\ mainpc = "returned"
    /\ status[2] = "done"
    /\ status[1] = "awaiting"
    /\ request[1].op = "getRepository"
    /\ calls[1] = <<"getUserId", "getRepository">>

\* the identifiers the calls of record r can return
IdsOfRecord ==
    [r \in 1..MaxRecords |->
        {ResponseId(op, r) : op \in {Pipeline[k] : k \in 1..Len(Pipeline)}}]

OwnIds(r) == IdsOfRecord[r]

\* C14: whatever the other records do, the values a record holds are the
\* ones its own calls returned; its link request carries the project
\* identifier its own copy call returned and the repository identifier its
\* own repository-resolve returned; its add-collaborator request carries
\* that project identifier and the user identifier its own user-resolve
\* returned; the repository the platform linked for it is its own; and no
\* identifier returned to another record occurs in any of its requests.
C14_RecordIsolation ==
    \A r \in Records :
        /\ user_id[r] \in Returned("getUserId", r)
        /\ repository_id[r] \in Returned("getRepository", r)
        /\ project_id[r] \in Returned("copyProject", r)
        /\ request[r].op = "linkProjectToRepository" =>
              request[r].args = <<Str(project_id[r]), Str(repository_id[r])>>
        /\ request[r].op = "addCollaboratorToProject" =>
              request[r].args = <<Str(project_id[r]), Str(user_id[r])>>
        /\ assoc[r] \in {Undefined} \cup {Str(v) : v \in Returned("getRepository", r)}
        /\ \A q \in Records \ {r} :
              \A k \in 1..Len(request[r].args) : request[r].args[k] \notin OwnIds(q)

\* the two records are at different steps, the second ahead of the first,
\* and the second's add-collaborator request carries its own project and
\* user identifiers
C14_Witness ==
    /\ Len(users) >= 2
    /\ request[1].op = "linkProjectToRepository"
    /\ request[1].args = <<ResponseId("copyProject", 1), ResponseId("getRepository", 1)>>
    /\ request[2].op = "addCollaboratorToProject"
    /\ request[2].args = <<ResponseId("copyProject", 2), ResponseId("getUserId", 2)>>

\* C15: makeProjects does not wait for the records: when its promise is
\* about to resolve every record is still awaiting the response to its
\* first call, and as long as it has not resolved no record has completed
\* or failed, has gone past its first call or has a project linked; so the
\* resolved promise says nothing about any record's project.
C15_ReturnsBeforeRecords ==
    /\ mainpc = "tick" =>
          \A r \in Records : status[r] = "awaiting" /\ pc[r] = 1
    /\ mainpc # "returned" =>
          \A r \in Records :
              /\ status[r] \notin {"done", "failed"}
              /\ pc[r] <= 1
              /\ Occurrences(calls[r], AcquisitionOps) = 0
              /\ assoc[r] = Undefined

\* the promise of makeProjects has resolved and no record of the roster has
\* got further than its first call
C15_Witness ==
    /\ mainpc = "returned"
    /\ Len(users) >= 2
    /\ \A r \in Records :
          /\ status[r] = "awaiting"
          /\ calls[r] = <<"getUserId">>
          /\ assoc[r] = Undefined

\* C16: the records whose user-resolve request has been issued are always
\* the first records of the roster, up to the one the loop has reached (so
\* the requests are issued in roster order); the first call of every record
\* is user-resolve; and when any record has issued its repository-resolve
\* or a later call, the loop is over and every record of the roster has
\* issued its user-resolve.
C16_UserResolvesFirst ==
    /\ \A r \in Records :
          /\ (calls[r] # <<>>) <=> (r < idx)
          /\ calls[r] # <<>> => calls[r][1] = "getUserId"
    /\ (\E r \in Records : Len(calls[r]) >= 2) =>
          /\ idx = Len(users) + 1
          /\ mainpc \notin {"loop", "tick"}
          /\ \A q \in Records : Occurrences(calls[q], {"getUserId"}) = 1

\* the first record of a roster of two has issued its repository-resolve
\* while the second has issued its user-resolve and nothing else
C16_Witness ==
    /\ Len(users) >= 2
    /\ calls[1] = <<"getUserId", "getRepository">>
    /\ calls[2] = <<"getUserId">>

\* every record of the roster has completed or failed
AllSettled == \A r \in Records : status[r] \in {"done", "failed"}

\* C17: when organization and template resolution have succeeded and every
\* call that is issued returns, every record of the roster eventually has
\* completed or failed; and a record that has completed or failed keeps
\* that one outcome ever after (it reaches one of the two, once).
C17_EveryRecordSettles ==
    /\ (mainpc = "loop") ~> AllSettled
    /\ [][\A r \in Records :
            status[r] \in {"done", "failed"} =>
                /\ status'[r] = status[r]
                /\ calls'[r] = calls[r]
                /\ request'[r] = NoRequest]_vars

\* of a roster of two, one record has completed and the other has failed
C17_Witness ==
    /\ Len(users) >= 2
    /\ status[1] = "done"
    /\ status[2] = "failed"
    /\ mainpc = "returned"

====
